---------------------------- MODULE Spec2Model ----------------------------
(***************************************************************************)
(* Model of src/autolysis.py: the analysis pipeline run by main(file_path). *)
(*                                                                         *)
(* A DataFrame is a record [nrows, cols]; cols is the ordered sequence of   *)
(* columns, each [name, dtype, cells].  Every cell is a record              *)
(* [tag, n, d, s]: tag "nan" is a missing value, tag "num" the rational     *)
(* n/d in lowest terms, tag "str" the text s.  None (load_csv's failure     *)
(* result) is the record NoneDF.                                            *)
(*                                                                         *)
(* The library calls are modelled by what they do to such a table:         *)
(* SimpleImputer(strategy='mean').fit_transform, DataFrame.describe,        *)
(* IsolationForest.fit_predict and KMeans.fit_predict.  The labels the two  *)
(* estimators return are a nondeterministic choice over every label         *)
(* sequence of the right length and range.  The plotting calls and the      *)
(* README write are taken to succeed whenever the output directory exists.  *)
(***************************************************************************)
EXTENDS Integers, Sequences, FiniteSets

VARIABLES
    pc,           \* the function main calls next ("return": main returned, "crashed": an exception left main)
    file,         \* the CSV file's content as read_csv would parse it (NoneDF: read_csv raises)
    dirOk,        \* os.makedirs in create_project_directory succeeded
    df,           \* main's local df
    eda_results,  \* main's local eda_results
    out,          \* the lines printed so far
    images,       \* the PNG files saved in the output directory
    readme,       \* README.md in the output directory
    trace,        \* history: the calls main made, in order, each with its outcome
    fits          \* history: the column names handed to each fit_predict call

vars == <<pc, file, dirOk, df, eda_results, out, images, readme, trace, fits>>

----------------------------------------------------------------------------
(* Bounds of the explored inputs *)

MaxRows == 3
MaxCols == 2
MaxCalls == 2

(* Program constants *)
n_clusters == 3
MaxPlotCols == 3

----------------------------------------------------------------------------
(* Cells and rational arithmetic *)

NaN == [tag |-> "nan", n |-> 0, d |-> 1, s |-> ""]
Str(s) == [tag |-> "str", n |-> 0, d |-> 1, s |-> s]

Abs(x) == IF x < 0 THEN -x ELSE x

RECURSIVE GCD(_, _)
GCD(a, b) == IF b = 0 THEN a ELSE GCD(b, a % b)

Num(n, d) ==
    LET g == GCD(Abs(n), d)
    IN  [tag |-> "num", n |-> n \div g, d |-> d \div g, s |-> ""]

IntCell(n) == Num(n, 1)

RatAdd(a, b) == Num(a.n * b.d + b.n * a.d, a.d * b.d)

IsNaN(c) == c.tag = "nan"

Min(a, b) == IF a < b THEN a ELSE b

Take(s, k) == SubSeq(s, 1, Min(k, Len(s)))

Range(s) == {s[i] : i \in 1..Len(s)}

----------------------------------------------------------------------------
(* DataFrames *)

NoneDF == [nrows |-> -1, cols |-> <<>>]

NumberDtypes == {"int64", "float64"}

IsNumeric(col) == col.dtype \in NumberDtypes

ColumnNames(t) == [i \in 1..Len(t.cols) |-> t.cols[i].name]

select_dtypes_number(t) == [nrows |-> t.nrows, cols |-> SelectSeq(t.cols, IsNumeric)]

\* DataFrame.empty: some axis has length 0
Empty(t) == t.nrows = 0 \/ Len(t.cols) = 0

HasNaN(t) == \E i \in 1..Len(t.cols) : \E r \in 1..t.nrows : IsNaN(t.cols[i].cells[r])

HasColumn(t, name) == \E i \in 1..Len(t.cols) : t.cols[i].name = name

\* df[name] = values: replaces the column of that name, else appends a new last column
SetColumn(t, name, dtype, cells) ==
    LET new == [name |-> name, dtype |-> dtype, cells |-> cells]
    IN  IF HasColumn(t, name)
        THEN [t EXCEPT !.cols = [i \in 1..Len(t.cols) |->
                 IF t.cols[i].name = name THEN new ELSE t.cols[i]]]
        ELSE [t EXCEPT !.cols = Append(t.cols, new)]

----------------------------------------------------------------------------
(* The input files *)

ColNames == <<"c1", "c2", "c3", "c4">>

\* the value a numeric column holds in a row where it is not missing
CellValue(c, r) == c * r

\* the sets of rows a numeric column may be missing: any
Masks(N) == SUBSET (1..N)

\* the sets of rows a numeric column may be missing: none, the first row, the
\* last row, or every row
FewMasks(N) == {{}, {1}, {N}, 1..N}

TextColumn(c, N) ==
    [name |-> ColNames[c], dtype |-> "object", cells |-> [r \in 1..N |-> Str("x")]]

\* read_csv types a column of integers int64, and float64 once a cell is missing
NumericColumn(c, N, mask) ==
    [name |-> ColNames[c],
     dtype |-> IF mask = {} THEN "int64" ELSE "float64",
     cells |-> [r \in 1..N |-> IF r \in mask THEN NaN ELSE IntCell(CellValue(c, r))]]

\* a header-only file has no rows, and read_csv types its columns object
ColumnChoices(c, N, masks) ==
    {TextColumn(c, N)} \cup
    (IF N = 0 THEN {} ELSE {NumericColumn(c, N, m) : m \in masks})

\* the sequences of k columns over N rows, column c drawn from its choices
RECURSIVE ColumnSeqs(_, _, _)
ColumnSeqs(N, k, masks) ==
    IF k = 0 THEN {<<>>}
    ELSE {Append(q, col) : q \in ColumnSeqs(N, k - 1, masks),
                           col \in ColumnChoices(k, N, masks)}

TablesOf(N, k, masks) == {[nrows |-> N, cols |-> cs] : cs \in ColumnSeqs(N, k, masks)}

\* the tables main is run on
Tables == UNION {TablesOf(N, k, FewMasks(N)) : N \in 0..MaxRows, k \in 1..MaxCols}

\* the tables handle_missing_values alone is run on
ImputeTables == UNION {TablesOf(N, k, Masks(N)) : N \in 0..MaxRows, k \in 1..MaxCols}

Files == Tables \cup {NoneDF}

----------------------------------------------------------------------------
(* Library calls *)

Observed(cells) == {r \in 1..Len(cells) : ~IsNaN(cells[r])}

RECURSIVE SumCells(_, _)
SumCells(cells, rows) ==
    IF rows = {} THEN IntCell(0)
    ELSE LET r == CHOOSE x \in rows : TRUE
         IN  RatAdd(cells[r], SumCells(cells, rows \ {r}))

\* the sum of the observed cells divided by the number of rows
ColumnMeanOverAllRows(cells) ==
    LET sum == SumCells(cells, Observed(cells))
    IN  Num(sum.n, sum.d * Len(cells))

\* the statistic SimpleImputer(strategy='mean') fits for a column with an observed value
ColumnMean(cells) ==
    LET obs == Observed(cells)
        sum == SumCells(cells, obs)
    IN  Num(sum.n, sum.d * Cardinality(obs))

FillColumn(cells) ==
    LET m == ColumnMean(cells)
    IN  [r \in 1..Len(cells) |-> IF IsNaN(cells[r]) THEN m ELSE cells[r]]

HasObserved(col) == Observed(col.cells) # {}

\* SimpleImputer(strategy='mean').fit_transform(X): raises for an X with no column
\* or no row; a column with no observed value is left out of the result
SimpleImputer_fit_transform(X) ==
    IF Empty(X)
    THEN [raised |-> TRUE, cols |-> <<>>]
    ELSE LET kept == SelectSeq(X.cols, HasObserved)
         IN  [raised |-> FALSE,
              cols |-> [i \in 1..Len(kept) |-> FillColumn(kept[i].cells)]]

\* DataFrame.describe(): raises for a DataFrame without columns
Describe(t) ==
    IF Len(t.cols) = 0
    THEN [raised |-> TRUE, count |-> <<>>]
    ELSE [raised |-> FALSE,
          count |-> [i \in 1..Len(t.cols) |-> Cardinality(Observed(t.cols[i].cells))]]

LabelSeqs(N, labels) == [1..N -> labels]

\* IsolationForest(contamination=0.05, random_state=42).fit_predict(X): one of
\* +1 / -1 per row.  With a missing value in X it raises or fits, by the
\* scikit-learn release.
IsolationForest_fit_predict(X) ==
    (IF HasNaN(X) THEN {[raised |-> TRUE, labels |-> <<>>]} ELSE {}) \cup
    {[raised |-> FALSE, labels |-> l] : l \in LabelSeqs(X.nrows, {-1, 1})}

\* KMeans(n_clusters=3, random_state=42).fit_predict(X): raises for a missing
\* value in X and for fewer rows than clusters, else one id in 0..2 per row
KMeans_fit_predict(X) ==
    IF HasNaN(X) \/ X.nrows < n_clusters
    THEN {[raised |-> TRUE, labels |-> <<>>]}
    ELSE {[raised |-> FALSE, labels |-> l] : l \in LabelSeqs(X.nrows, 0..(n_clusters - 1))}

----------------------------------------------------------------------------
(* The functions of autolysis.py, as functions of main's locals *)

\* load_csv: the DataFrame read, or None after printing the error
load_csv(f) ==
    IF f = NoneDF
    THEN [df |-> NoneDF, printed |-> "Error loading CSV file", outcome |-> "error"]
    ELSE [df |-> f, printed |-> "CSV file loaded successfully.", outcome |-> "ok"]

\* df[numeric_columns] = values: the i-th numeric column takes the i-th column of values
AssignNumeric(t, values) ==
    LET idx == SelectSeq([i \in 1..Len(t.cols) |-> i], LAMBDA i : IsNumeric(t.cols[i]))
        pos(i) == CHOOSE j \in 1..Len(idx) : idx[j] = i
    IN  [t EXCEPT !.cols = [i \in 1..Len(t.cols) |->
            IF IsNumeric(t.cols[i])
            THEN [t.cols[i] EXCEPT !.dtype = "float64", !.cells = values[pos(i)]]
            ELSE t.cols[i]]]

\* handle_missing_values: the assignment raises when fit_transform returned fewer
\* columns than numeric_columns names; every exception is caught and printed
handle_missing_values(t) ==
    LET X == select_dtypes_number(t)
        r == SimpleImputer_fit_transform(X)
    IN  IF r.raised \/ Len(r.cols) # Len(X.cols)
        THEN [df |-> t, printed |-> "Error handling missing values", outcome |-> "error"]
        ELSE [df |-> AssignNumeric(t, r.cols),
              printed |-> "Missing values imputed successfully.", outcome |-> "ok"]

\* remove_non_numeric_columns: None has no select_dtypes, the exception is caught
remove_non_numeric_columns(t) ==
    IF t = NoneDF
    THEN [df |-> t, printed |-> "Error removing non-numeric columns", outcome |-> "error"]
    ELSE [df |-> select_dtypes_number(t), printed |-> "Non-numeric columns removed.",
          outcome |-> "ok"]

NoEda == [shape |-> <<0, 0>>, columns |-> <<>>, data_types |-> <<>>,
          missing_values |-> <<>>, count |-> <<>>]

\* perform_eda: no try, so describe's exception leaves main
perform_eda(t) ==
    LET d == Describe(t)
    IN  IF t = NoneDF \/ d.raised
        THEN [raised |-> TRUE, eda |-> NoEda]
        ELSE [raised |-> FALSE,
              eda |-> [shape |-> <<t.nrows, Len(t.cols)>>,
                       columns |-> ColumnNames(t),
                       data_types |-> [i \in 1..Len(t.cols) |-> t.cols[i].dtype],
                       missing_values |-> [i \in 1..Len(t.cols) |->
                           t.nrows - Cardinality(Observed(t.cols[i].cells))],
                       count |-> d.count]]

\* the frame detect_outliers fits on: every numeric column of df
DetectInput(t) == select_dtypes_number(t)

\* the frame perform_clustering fits on: every numeric column of df
ClusterInput(t) == select_dtypes_number(t)

\* the values detect_outliers stores in df['outlier']
OutlierCells(labels) == [r \in 1..Len(labels) |-> IntCell(labels[r])]

\* the values perform_clustering stores in df['cluster']
ClusterCells(labels) == [r \in 1..Len(labels) |-> IntCell(labels[r])]

Image(kind, col, axes) == [kind |-> kind, col |-> col, axes |-> axes]

\* the columns create_visualizations plots from
PlotColumns(t) == ColumnNames(select_dtypes_number(t))

\* create_visualizations: the files saved, in order; the first savefig raises
\* when the output directory is missing and nothing is saved
create_visualizations(t, dir) ==
    LET nc == PlotColumns(t)
        shown == Take(nc, MaxPlotCols)
    IN  IF ~dir \/ t = NoneDF
        THEN [images |-> {}, printed |-> <<"Error creating visualizations">>,
              outcome |-> "error"]
        ELSE [images |->
                 {Image("correlation_heatmap", "", ColumnNames(t))}
                 \cup {Image("distribution", shown[i], <<shown[i]>>) : i \in 1..Len(shown)}
                 \cup (IF Len(nc) >= 2 THEN {Image("pairplot", "", shown)} ELSE {})
                 \cup (IF HasColumn(t, "outlier")
                       THEN {Image("outliers", "", <<nc[1]>>)} ELSE {})
                 \cup (IF HasColumn(t, "cluster") /\ Len(nc) >= 2
                       THEN {Image("clusters", "", <<nc[1], nc[2]>>)} ELSE {}),
              printed |-> <<>>, outcome |-> "ok"]

Ref(kind, col) == [kind |-> kind, col |-> col]

NoReadme == [written |-> FALSE, rows |-> 0, columns |-> 0, refs |-> <<>>]

\* the image references generate_readme writes, in order
ReadmeRefs(eda) ==
    LET shown == Take(eda.columns, MaxPlotCols)
    IN  <<Ref("correlation_heatmap", "")>>
        \o [i \in 1..Len(shown) |-> Ref("distribution", shown[i])]
        \o <<Ref("pairplot", ""), Ref("outliers", ""), Ref("clusters", "")>>

\* generate_readme: open raises when the output directory is missing
generate_readme(eda, dir) ==
    IF ~dir
    THEN [readme |-> NoReadme, printed |-> <<"Error generating README.md">>,
          outcome |-> "error"]
    ELSE [readme |-> [written |-> TRUE, rows |-> eda.shape[1], columns |-> eda.shape[2],
                      refs |-> ReadmeRefs(eda)],
          printed |-> <<>>, outcome |-> "ok"]

\* main without the test of line 174
MainGuardMissing(t) == TRUE

\* main, line 174
MainGuard(t) == t # NoneDF

\* main with clustering called before outlier detection
NextCallClusterFirst(f) ==
    CASE f = "create_project_directory" -> "load_csv"
      [] f = "load_csv" -> "handle_missing_values"
      [] f = "handle_missing_values" -> "remove_non_numeric_columns"
      [] f = "remove_non_numeric_columns" -> "perform_eda"
      [] f = "perform_eda" -> "perform_clustering"
      [] f = "perform_clustering" -> "detect_outliers"
      [] f = "detect_outliers" -> "create_visualizations"
      [] f = "create_visualizations" -> "generate_readme"
      [] f = "generate_readme" -> "generate_openai_summary"
      [] f = "generate_openai_summary" -> "return"

\* the call main makes after function f returns
NextCall(f) ==
    CASE f = "create_project_directory" -> "load_csv"
      [] f = "load_csv" -> "handle_missing_values"
      [] f = "handle_missing_values" -> "remove_non_numeric_columns"
      [] f = "remove_non_numeric_columns" -> "perform_eda"
      [] f = "perform_eda" -> "detect_outliers"
      [] f = "detect_outliers" -> "perform_clustering"
      [] f = "perform_clustering" -> "create_visualizations"
      [] f = "create_visualizations" -> "generate_readme"
      [] f = "generate_readme" -> "generate_openai_summary"
      [] f = "generate_openai_summary" -> "return"

Called(f, outcome) == [call |-> f, outcome |-> outcome]

NoFits == [detect |-> <<>>, cluster |-> <<>>]

----------------------------------------------------------------------------
(* main(file_path), one action per call *)

Init ==
    /\ pc = "create_project_directory"
    /\ file \in Files
    /\ dirOk = FALSE
    /\ df = NoneDF
    /\ eda_results = NoEda
    /\ out = <<>>
    /\ images = {}
    /\ readme = NoReadme
    /\ trace = <<>>
    /\ fits = NoFits

\* line 172: os.makedirs succeeds or raises, and either way the name is returned
CreateProjectDirectory ==
    /\ pc = "create_project_directory"
    /\ \E ok \in BOOLEAN :
        /\ dirOk' = ok
        /\ out' = Append(out, IF ok THEN "Directory created successfully."
                                    ELSE "Error creating directory")
        /\ trace' = Append(trace, Called("create_project_directory",
                                         IF ok THEN "ok" ELSE "error"))
    /\ pc' = NextCall("create_project_directory")
    /\ UNCHANGED <<file, df, eda_results, images, readme, fits>>

\* lines 173-174
LoadCsv ==
    /\ pc = "load_csv"
    /\ LET r == load_csv(file)
       IN  /\ df' = r.df
           /\ out' = Append(out, r.printed)
           /\ trace' = Append(trace, Called("load_csv", r.outcome))
           /\ pc' = IF MainGuard(r.df) THEN NextCall("load_csv") ELSE "return"
    /\ UNCHANGED <<file, dirOk, eda_results, images, readme, fits>>

CallHandleMissingValues(next) ==
    /\ pc = "handle_missing_values"
    /\ LET r == handle_missing_values(df)
       IN  /\ df' = r.df
           /\ out' = Append(out, r.printed)
           /\ trace' = Append(trace, Called("handle_missing_values", r.outcome))
    /\ pc' = next
    /\ UNCHANGED <<file, dirOk, eda_results, images, readme, fits>>

\* line 175
HandleMissingValues == CallHandleMissingValues(NextCall("handle_missing_values"))

\* line 176
RemoveNonNumericColumns ==
    /\ pc = "remove_non_numeric_columns"
    /\ LET r == remove_non_numeric_columns(df)
       IN  /\ df' = r.df
           /\ out' = Append(out, r.printed)
           /\ trace' = Append(trace, Called("remove_non_numeric_columns", r.outcome))
    /\ pc' = NextCall("remove_non_numeric_columns")
    /\ UNCHANGED <<file, dirOk, eda_results, images, readme, fits>>

\* line 177
PerformEda ==
    /\ pc = "perform_eda"
    /\ LET r == perform_eda(df)
       IN  /\ eda_results' = r.eda
           /\ trace' = Append(trace, Called("perform_eda",
                                            IF r.raised THEN "raised" ELSE "ok"))
           /\ pc' = IF r.raised THEN "crashed" ELSE NextCall("perform_eda")
    /\ UNCHANGED <<file, dirOk, df, out, images, readme, fits>>

\* line 178
DetectOutliers ==
    /\ pc = "detect_outliers"
    /\ LET X == DetectInput(df)
       IN  IF Empty(X)
           THEN /\ trace' = Append(trace, Called("detect_outliers", "skipped"))
                /\ UNCHANGED <<df, out, fits>>
           ELSE \E r \in IsolationForest_fit_predict(X) :
                /\ fits' = [fits EXCEPT !.detect = ColumnNames(X)]
                /\ IF r.raised
                   THEN /\ out' = Append(out, "Error detecting outliers")
                        /\ trace' = Append(trace, Called("detect_outliers", "error"))
                        /\ df' = df
                   ELSE /\ df' = SetColumn(df, "outlier", "int64", OutlierCells(r.labels))
                        /\ trace' = Append(trace, Called("detect_outliers", "ok"))
                        /\ out' = out
    /\ pc' = NextCall("detect_outliers")
    /\ UNCHANGED <<file, dirOk, eda_results, images, readme>>

\* line 179
PerformClustering ==
    /\ pc = "perform_clustering"
    /\ LET X == ClusterInput(df)
       IN  IF Empty(X)
           THEN /\ trace' = Append(trace, Called("perform_clustering", "skipped"))
                /\ UNCHANGED <<df, out, fits>>
           ELSE \E r \in KMeans_fit_predict(X) :
                /\ fits' = [fits EXCEPT !.cluster = ColumnNames(X)]
                /\ IF r.raised
                   THEN /\ out' = Append(out, "Error performing clustering")
                        /\ trace' = Append(trace, Called("perform_clustering", "error"))
                        /\ df' = df
                   ELSE /\ df' = SetColumn(df, "cluster", "int64", ClusterCells(r.labels))
                        /\ trace' = Append(trace, Called("perform_clustering", "ok"))
                        /\ out' = out
    /\ pc' = NextCall("perform_clustering")
    /\ UNCHANGED <<file, dirOk, eda_results, images, readme>>

\* line 180
CreateVisualizations ==
    /\ pc = "create_visualizations"
    /\ LET r == create_visualizations(df, dirOk)
       IN  /\ images' = r.images
           /\ out' = out \o r.printed
           /\ trace' = Append(trace, Called("create_visualizations", r.outcome))
    /\ pc' = NextCall("create_visualizations")
    /\ UNCHANGED <<file, dirOk, df, eda_results, readme, fits>>

\* line 181
GenerateReadme ==
    /\ pc = "generate_readme"
    /\ LET r == generate_readme(eda_results, dirOk)
       IN  /\ readme' = r.readme
           /\ out' = out \o r.printed
           /\ trace' = Append(trace, Called("generate_readme", r.outcome))
    /\ pc' = NextCall("generate_readme")
    /\ UNCHANGED <<file, dirOk, df, eda_results, images, fits>>

\* line 182: the completion request answers or raises; the exception is caught
GenerateOpenaiSummary ==
    /\ pc = "generate_openai_summary"
    /\ \E ok \in BOOLEAN :
        /\ out' = Append(out, IF ok THEN "OpenAI Summary:"
                                    ELSE "Error generating summary with OpenAI API")
        /\ trace' = Append(trace, Called("generate_openai_summary",
                                         IF ok THEN "ok" ELSE "error"))
    /\ pc' = NextCall("generate_openai_summary")
    /\ UNCHANGED <<file, dirOk, df, eda_results, images, readme, fits>>

Next ==
    \/ CreateProjectDirectory
    \/ LoadCsv
    \/ HandleMissingValues
    \/ RemoveNonNumericColumns
    \/ PerformEda
    \/ DetectOutliers
    \/ PerformClustering
    \/ CreateVisualizations
    \/ GenerateReadme
    \/ GenerateOpenaiSummary

Spec == Init /\ [][Next]_vars

----------------------------------------------------------------------------
(* handle_missing_values called repeatedly on a loaded table *)

InitImpute ==
    /\ pc = "handle_missing_values"
    /\ file \in ImputeTables
    /\ dirOk = TRUE
    /\ df = file
    /\ eda_results = NoEda
    /\ out = <<>>
    /\ images = {}
    /\ readme = NoReadme
    /\ trace = <<>>
    /\ fits = NoFits

HandleMissingValuesAgain ==
    /\ Len(trace) < MaxCalls
    /\ CallHandleMissingValues("handle_missing_values")

NextImpute == HandleMissingValuesAgain

SpecImpute == InitImpute /\ [][NextImpute]_vars

----------------------------------------------------------------------------
(* Properties *)

TraceCalls == [i \in 1..Len(trace) |-> trace[i].call]

WasCalled(f) == \E i \in 1..Len(trace) : trace[i].call = f

Outcome(f, o) == \E i \in 1..Len(trace) : trace[i] = Called(f, o)

Ended == pc \in {"return", "crashed"}

IsLoaded == file # NoneDF /\ WasCalled("load_csv")

\* the numeric columns of the file as loaded, in file order
OriginalNumeric == ColumnNames(select_dtypes_number(file))

HardStages == {"handle_missing_values", "detect_outliers", "perform_clustering"}

\* C1: once imputation, outlier detection or clustering has raised, the run has
\* failed: the call that raised is the last call main makes.
C1_FailFast ==
    \A i \in 1..Len(trace) :
        (trace[i].call \in HardStages /\ trace[i].outcome = "error") => i = Len(trace)

C2_Order == <<"load_csv", "handle_missing_values", "perform_eda", "detect_outliers",
              "perform_clustering", "create_visualizations", "generate_readme">>

C2_IsStage(f) == f \in Range(C2_Order)

\* C2: the stages main has run are, in order and without repetition, an initial
\* part of load, imputation, summarization, outlier detection, clustering,
\* rendering, report writing; and whatever the outcome of outlier detection,
\* clustering is the call that follows it.
C2_FixedOrder ==
    LET stages == SelectSeq(TraceCalls, C2_IsStage)
    IN  /\ Len(stages) <= Len(C2_Order)
        /\ stages = SubSeq(C2_Order, 1, Len(stages))
        /\ \A i \in 1..Len(trace) :
              trace[i].call = "detect_outliers" =>
                  IF i = Len(trace) THEN pc = "perform_clustering"
                  ELSE trace[i + 1].call = "perform_clustering"
        /\ WasCalled("create_visualizations") =>
              WasCalled("detect_outliers") /\ WasCalled("perform_clustering")

\* a run that returned in which outlier detection raised and clustering was still called
C2_Witness ==
    /\ pc = "return"
    /\ Outcome("detect_outliers", "error")
    /\ WasCalled("perform_clustering")
    /\ WasCalled("generate_readme")

\* C3: for a loaded table without numeric columns, at the end of the run neither
\* outlier detection nor clustering has logged an error, no 'outlier' or
\* 'cluster' column exists, and the table held is the table loaded.
C3_ZeroNumericUntouched ==
    (IsLoaded /\ Len(OriginalNumeric) = 0 /\ Ended) =>
        /\ ~Outcome("detect_outliers", "error")
        /\ ~Outcome("perform_clustering", "error")
        /\ ~HasColumn(df, "outlier")
        /\ ~HasColumn(df, "cluster")
        /\ df = file

\* C4: when both estimators were fitted in a run, clustering was fitted on the
\* columns outlier detection was fitted on, and 'outlier' is not among them.
C4_SameFitColumns ==
    (fits.detect # <<>> /\ fits.cluster # <<>>) =>
        /\ fits.cluster = fits.detect
        /\ "outlier" \notin Range(fits.cluster)

\* C5: every image the written report references was saved by the rendering
\* stage of the same run.
C5_RefsOnlyRendered ==
    readme.written =>
        \A i \in 1..Len(readme.refs) :
            \E img \in images :
                img.kind = readme.refs[i].kind /\ img.col = readme.refs[i].col

AllMissingColumn(t) ==
    \E i \in 1..Len(t.cols) : IsNumeric(t.cols[i]) /\ Observed(t.cols[i].cells) = {}

\* C6: for a table with a numeric column that is entirely missing, imputation
\* signals the error to its caller: the call ends by raising and the run does
\* not carry on with the table unfilled.
C6_ImputationErrorSignalled ==
    (IsLoaded /\ AllMissingColumn(file) /\ WasCalled("handle_missing_values")) =>
        /\ Outcome("handle_missing_values", "raised")
        /\ trace[Len(trace)].call = "handle_missing_values"

RECURSIVE C7_Sum(_, _)
C7_Sum(cells, rows) ==
    IF rows = {} THEN 0
    ELSE LET r == CHOOSE x \in rows : TRUE
         IN  cells[r].n + C7_Sum(cells, rows \ {r})

C7_Pre == \A i \in 1..Len(file.cols) :
              IsNumeric(file.cols[i]) => Observed(file.cols[i].cells) # {}

C7_Imputed ==
    /\ df.nrows = file.nrows
    /\ ColumnNames(df) = ColumnNames(file)
    /\ \A i \in 1..Len(file.cols) :
          LET old == file.cols[i].cells
              new == df.cols[i].cells
              obs == Observed(old)
          IN  IF IsNumeric(file.cols[i])
              THEN /\ Len(new) = Len(old)
                   /\ \A r \in 1..Len(old) :
                         IF IsNaN(old[r])
                         THEN /\ new[r].tag = "num"
                              /\ new[r].n * Cardinality(obs) = new[r].d * C7_Sum(old, obs)
                         ELSE new[r] = old[r]
              ELSE df.cols[i] = file.cols[i]

C8_LoadFailure ==
    file = NoneDF =>
        /\ Cardinality({i \in 1..Len(trace) : trace[i].call = "load_csv"}) <= 1
        /\ Range(TraceCalls) \subseteq {"create_project_directory", "load_csv"}
        /\ images = {}
        /\ ~readme.written
        /\ (WasCalled("load_csv") => pc = "return")

C8_Witness == file = NoneDF /\ pc = "return" /\ Outcome("load_csv", "error")

\* C9: the distribution images are of the first three numeric columns of the
\* input, and the cluster scatter exists only with a 'cluster' column and two
\* numeric input columns, which are its axes.
C9_PlotOriginalOnly ==
    LET shown == Range(Take(OriginalNumeric, 3))
    IN  \A img \in images :
            /\ img.kind = "distribution" => img.col \in shown
            /\ img.kind = "clusters" =>
                  /\ HasColumn(df, "cluster")
                  /\ Len(OriginalNumeric) >= 2
                  /\ Range(img.axes) \subseteq Range(OriginalNumeric)

\* C10: after the load the table keeps its row count and every observed input
\* cell stays in its row; an 'outlier' column holds one of the labels inlier,
\* outlier per row and a 'cluster' column one integer in 0..2 per row.
C10_RowsAndLabels ==
    (IsLoaded /\ df # NoneDF) =>
        /\ df.nrows = file.nrows
        /\ \A i \in 1..Len(df.cols) :
              LET col == df.cols[i]
              IN  /\ Len(col.cells) = file.nrows
                  /\ \A j \in 1..Len(file.cols) :
                        file.cols[j].name = col.name =>
                            \A r \in Observed(file.cols[j].cells) :
                                col.cells[r] = file.cols[j].cells[r]
                  /\ col.name = "outlier" =>
                        \A r \in 1..df.nrows :
                            col.cells[r].tag = "str" /\ col.cells[r].s \in {"inlier", "outlier"}
                  /\ col.name = "cluster" =>
                        \A r \in 1..df.nrows :
                            /\ col.cells[r].tag = "num"
                            /\ col.cells[r].d = 1
                            /\ col.cells[r].n \in 0..2

============================================================================
